---- MODULE Spec2Model ----
(***************************************************************************)
(* State-machine model of the FileListing component of                     *)
(* onedrive-vercel-index (src/src/components/FileListing.tsx).             *)
(*                                                                         *)
(* The source file holds two definitions of the component: the first at    *)
(* lines 101-237 and the second at lines 292-462.  Both are modelled; the  *)
(* variable rev says which of the two is mounted (1 or 2).  Definitions    *)
(* whose code is the same in both are modelled once; definitions that      *)
(* differ carry the suffix 1 or 2.                                         *)
(*                                                                         *)
(* JavaScript strings are TLA+ strings built with \o.  A file or folder    *)
(* name, and a route segment, is kept as its sequence of characters so     *)
(* that encodeURIComponent can be computed character by character.         *)
(***************************************************************************)
EXTENDS Naturals, Sequences, FiniteSets, TLC

VARIABLES
  rev,              \* which definition of FileListing is mounted: 1 or 2
  protectedRoute,   \* the protected route a token is stored for, or NoRoute
  query,            \* the `query` prop of FileListing
  data,             \* useProtectedSWRInfinite: the pages fetched; NoData = undefined
  error,            \* useProtectedSWRInfinite: the fetch error; NoError = undefined
  selected,         \* useState: map id -> TRUE (absent = unselected)
  totalSelected,    \* useState: 0 | 1 | 2
  totalGenerating,  \* useState: boolean
  folderGenerating, \* useState: map folder id -> boolean
  downloads,        \* the download promises started, by toast id
  toasts,           \* react-hot-toast store: toast id -> kind of toast
  skipToasts,       \* error toasts of skipped traversal records (their paths)
  anchorClicks,     \* number of anchor elements clicked
  anchorHref        \* href of the anchor element clicked last, or Null

vars == <<rev, protectedRoute, query, data, error, selected, totalSelected,
          totalGenerating, folderGenerating, downloads, toasts, skipToasts,
          anchorClicks, anchorHref>>

------------------------------------------------------------------------------
(* Bounds *)

\* number of download promises (and their loading toasts) started in a run
MaxDownloads == 2
\* number of anchor clicks counted in a run
MaxClicks == 1
\* length of a `path` array of the route query
MaxSegments == 2

------------------------------------------------------------------------------
(* JavaScript values *)

Undefined == "undefined"
Null == "null"

RECURSIVE Str(_)
\* the JavaScript string made of the characters cs
Str(cs) == IF cs = <<>> THEN "" ELSE Head(cs) \o Str(Tail(cs))

\* encodeURIComponent of one character: the characters of the model that are
\* outside A-Z a-z 0-9 - _ . ! ~ * ' ( ) are percent-encoded
encodeChar(c) ==
  CASE c = " " -> "%20"
    [] c = "/" -> "%2F"
    [] c = "%" -> "%25"
    [] c = "&" -> "%26"
    [] OTHER   -> c

RECURSIVE encodeURIComponent(_)
encodeURIComponent(cs) ==
  IF cs = <<>> THEN "" ELSE encodeChar(Head(cs)) \o encodeURIComponent(Tail(cs))

RECURSIVE join(_, _)
\* Array.prototype.join on an array of strings
join(strs, sep) ==
  IF strs = <<>> THEN ""
  ELSE IF Len(strs) = 1 THEN strs[1]
  ELSE strs[1] \o sep \o join(Tail(strs), sep)

RECURSIVE concat(_)
\* [].concat(...arrays): the arrays flattened by one level
concat(arrays) ==
  IF arrays = <<>> THEN <<>> ELSE Head(arrays) \o concat(Tail(arrays))

Range(s) == {s[i] : i \in DOMAIN s}

------------------------------------------------------------------------------
(* queryToPath *)

\* the `query` values of the model: ParsedUrlQuery | undefined, with
\* path: string | string[] | undefined
QAbsent == [kind |-> "undefined"]
QNoPath == [kind |-> "object", path |-> [t |-> "undefined"]]
QString(cs) == [kind |-> "object", path |-> [t |-> "string", v |-> cs]]
QArray(segs) == [kind |-> "object", path |-> [t |-> "array", v |-> segs]]

\* the mutant of queryToPath that does not encode the segments
queryToPath_NoEncode(q) ==
  IF q.kind # "undefined"
  THEN IF q.path.t = "undefined" \/ (q.path.t = "string" /\ q.path.v = <<>>)
       THEN "/"
       ELSE IF q.path.t = "string"
            THEN "/" \o Str(q.path.v)
            ELSE "/" \o join([i \in DOMAIN q.path.v |-> Str(q.path.v[i])], "/")
  ELSE "/"

queryToPath(q) ==
  IF q.kind # "undefined"
  THEN IF q.path.t = "undefined" \/ (q.path.t = "string" /\ q.path.v = <<>>)
       THEN "/"
       ELSE IF q.path.t = "string"
            THEN "/" \o encodeURIComponent(q.path.v)
            ELSE "/" \o join([i \in DOMAIN q.path.v |->
                                encodeURIComponent(q.path.v[i])], "/")
  ELSE "/"

------------------------------------------------------------------------------
(* The remote drive behind the listing API *)

DotPassword == <<".", "p", "a", "s", "s", "w", "o", "r", "d">>

FolderA == [id |-> "A", name |-> <<"d">>, folder |-> TRUE]
FolderB == [id |-> "B", name |-> <<"a", " ", "b">>, folder |-> TRUE]
File1 == [id |-> "f1", name |-> <<"x">>, folder |-> FALSE]
File2 == [id |-> "f2", name |-> <<"y", " ", "z">>, folder |-> FALSE]
FilePw == [id |-> "pw", name |-> DotPassword, folder |-> FALSE]
File3 == [id |-> "f3", name |-> <<"k">>, folder |-> FALSE]
File4 == [id |-> "f4", name |-> <<"m">>, folder |-> FALSE]

FolderPage(children, hasNext) ==
  [t |-> "folder", value |-> children, next |-> hasNext]
FilePage(f) == [t |-> "file", value |-> <<f>>, next |-> FALSE]
\* a response that has neither a `folder` nor a `file` key
OtherPage == [t |-> "other", value |-> <<>>, next |-> FALSE]

\* the pages the listing API serves for a path, in order; <<>> for no such item
Drive(p) ==
  CASE p = "/"      -> <<FolderPage(<<FolderA, FolderB, File1>>, TRUE),
                         FolderPage(<<File2, FilePw>>, FALSE)>>
    [] p = "/d"     -> <<FolderPage(<<File3, File4>>, FALSE)>>
    [] p = "/a%20b" -> <<FolderPage(<<>>, FALSE)>>
    [] p = "/x"     -> <<FilePage(File1)>>
    [] p = "/d/k"   -> <<FilePage(File3)>>
    [] p = "/k"     -> <<[FilePage(File3) EXCEPT !.next = TRUE], FilePage(File4)>>
    [] p = "/%25"   -> <<OtherPage>>
    [] OTHER        -> <<>>

\* the `query` props of the routes the user moves between: root and /d
Queries == {QAbsent, QArray(<<<<"d">>>>)}

\* the route segments and the `query` values queryToPath is applied to
Segments == {<<"d">>, <<"a", " ", "b">>, <<"x">>, <<"k">>, <<"%">>}
SegmentArrays ==
  UNION {[1..n -> Segments] : n \in 0..MaxSegments}
QueryInputs ==
  {QAbsent, QNoPath, QString(<<>>)}
    \cup {QString(seg) : seg \in Segments}
    \cup {QArray(segs) : segs \in SegmentArrays}

\* `data` and `error` of the fetch hook while undefined
NoData == <<>>
NoError == [status |-> 0, message |-> Undefined]

\* the errors the fetch reports
FetchError(status, message) == [status |-> status, message |-> message]
Errors == {FetchError(401, "Unauthorized"), FetchError(403, "Forbidden"),
           FetchError(404, "Not Found"), FetchError(500, Undefined)}

------------------------------------------------------------------------------
(* Protected-route tokens (utils/protectedRouteHandler) *)

NoRoute == "none"
Token == "T0k"
ProtectedRoutes == {"/d"}

\* what can follow a protected route in a path of the drive
PathTails == {"", "d", "d/k", "d/m", "d/s", "x", "y%20z", ".password", "a%20b",
              "/k", "/m", "/s", "/x", "/y%20z", "/.password"}

startsWith(p, r) == \E t \in PathTails : p = r \o t

\* the token stored for the protected route that p lies under, or null
getStoredToken(p) ==
  IF protectedRoute # NoRoute /\ startsWith(p, protectedRoute)
  THEN Token ELSE Null

------------------------------------------------------------------------------
(* Render: FileListing's body *)

\* JSON.stringify of an error message: a string is quoted, undefined stays
JSONstringify(m) == IF m = Undefined THEN Undefined ELSE "\"" \o m \o "\""

path == queryToPath(query)
hashedToken == getStoredToken(path)

OAuthStep1 == "/onedrive-vercel-index-oauth/step-1"

Element(kind, push, prop) == [kind |-> kind, push |-> push, prop |-> prop]

\* the mutant of the dispatch that looks at the data before the error
FileListing_DataFirst(d, e) ==
  IF d # NoData
  THEN IF d[1].t = "folder" THEN Element("FolderLayout", Null, path)
       ELSE Element("Preview", Null, d[1].value[1].id)
  ELSE IF e # NoError
       THEN IF e.status = 403 THEN Element("div", OAuthStep1, Null)
            ELSE IF e.status = 401 THEN Element("Auth", Null, path)
            ELSE Element("FourOhFour", Null, JSONstringify(e.message))
       ELSE Element("Loading", Null, Null)

\* the mutant of the dispatch that previews a file whatever the number of
\* responses (without `responses.length === 1`)
FileListing_PreviewAnyFile(d, e) ==
  IF e # NoError
  THEN IF e.status = 403 THEN Element("div", OAuthStep1, Null)
       ELSE IF e.status = 401 THEN Element("Auth", Null, path)
       ELSE Element("FourOhFour", Null, JSONstringify(e.message))
  ELSE IF d = NoData THEN Element("Loading", Null, Null)
  ELSE LET responses == d
       IN IF responses[1].t = "folder"
          THEN Element("FolderLayout", Null, path)
          ELSE IF responses[1].t = "file"
               THEN Element("Preview", Null, responses[1].value[1].id)
               ELSE Element("FourOhFour", Null, "Cannot preview " \o path)

\* what FileListing returns for fetch state (d, e), with the router.push it
\* issues while rendering
FileListing(d, e) ==
  IF e # NoError
  THEN IF e.status = 403 THEN Element("div", OAuthStep1, Null)
       ELSE IF e.status = 401 THEN Element("Auth", Null, path)
       ELSE Element("FourOhFour", Null, JSONstringify(e.message))
  ELSE IF d = NoData THEN Element("Loading", Null, Null)
  ELSE LET responses == d
       IN IF responses[1].t = "folder"
          THEN Element("FolderLayout", Null, path)
          ELSE IF responses[1].t = "file" /\ Len(responses) = 1
               THEN Element("Preview", Null, responses[1].value[1].id)
               ELSE Element("FourOhFour", Null, "Cannot preview " \o path)

view == FileListing(data, error)

\* the folder view is rendered, so its handlers exist
FolderView == view.kind = "FolderLayout"

folderChildren == concat([i \in DOMAIN data |-> data[i].value])

------------------------------------------------------------------------------
(* Selection *)

IsListedFile(c) == ~c.folder /\ c.name # DotPassword

\* the mutant of getFiles that keeps the '.password' file
getFiles_KeepPassword == SelectSeq(folderChildren, LAMBDA c : ~c.folder)

getFiles == SelectSeq(folderChildren, IsListedFile)

\* selected[id] as a JavaScript truth value
isSelected(sel, id) == id \in DOMAIN sel /\ sel[id]

genTotalSelected(sel) ==
  LET files == getFiles
      selectInfo == [i \in DOMAIN files |-> isSelected(sel, files[i].id)]
      hasT == \E i \in DOMAIN selectInfo : selectInfo[i]
      hasF == \E i \in DOMAIN selectInfo : ~selectInfo[i]
  IN IF hasT /\ hasF THEN 1 ELSE IF ~hasF THEN 2 ELSE 0

\* Object.fromEntries(ids.map(id => [id, true]))
allTrue(ids) == [id \in ids |-> TRUE]

\* the ids the folder layouts render a selection checkbox for
LayoutCheckboxIds == {c.id : c \in Range(getFiles)}

------------------------------------------------------------------------------
(* Initial state: a freshly mounted component, nothing fetched yet *)

\* the useState initial values
InitialState ==
  /\ selected = <<>>
  /\ totalSelected = 0
  /\ totalGenerating = FALSE
  /\ folderGenerating = <<>>

Init ==
  /\ rev \in {1, 2}
  /\ protectedRoute \in {NoRoute} \cup ProtectedRoutes
  /\ query = QAbsent
  /\ data = NoData
  /\ error = NoError
  /\ InitialState
  /\ downloads = <<>>
  /\ toasts = <<>>
  /\ skipToasts = {}
  /\ anchorClicks = 0
  /\ anchorHref = Null

------------------------------------------------------------------------------
(* The fetch hook useProtectedSWRInfinite(path) *)

\* the next page of the listing arrives
swrData ==
  /\ Len(data) < Len(Drive(path))
  /\ data' = Append(data, Drive(path)[Len(data) + 1])
  /\ error' = NoError
  /\ UNCHANGED <<rev, protectedRoute, query, selected, totalSelected,
                 totalGenerating, folderGenerating, downloads, toasts,
                 skipToasts, anchorClicks, anchorHref>>

\* the fetch of the next page fails; pages fetched before stay in `data`
swrError(e) ==
  /\ Len(data) < Len(Drive(path)) \/ Drive(path) = <<>>
  /\ error = NoError
  /\ error' = e
  /\ UNCHANGED <<rev, protectedRoute, query, data, selected, totalSelected,
                 totalGenerating, folderGenerating, downloads, toasts,
                 skipToasts, anchorClicks, anchorHref>>

------------------------------------------------------------------------------
(* Navigation *)

\* the route changes and the mounted component is rendered with the new
\* `query` prop: the useState values are kept
navigate(q) ==
  /\ queryToPath(q) # path
  /\ query' = q
  /\ data' = NoData
  /\ error' = NoError
  /\ UNCHANGED <<rev, protectedRoute, selected, totalSelected, totalGenerating,
                 folderGenerating, downloads, toasts, skipToasts, anchorClicks, anchorHref>>

\* the route changes to a page that mounts a new FileListing: the useState
\* initial values apply, and the promises of the old one no longer reach it
remount(q) ==
  /\ queryToPath(q) # path
  /\ query' = q
  /\ data' = NoData
  /\ error' = NoError
  /\ selected' = <<>>
  /\ totalSelected' = 0
  /\ totalGenerating' = FALSE
  /\ folderGenerating' = <<>>
  /\ downloads' = [t \in DOMAIN downloads |-> [downloads[t] EXCEPT !.own = FALSE]]
  /\ UNCHANGED <<rev, protectedRoute, toasts, skipToasts, anchorClicks, anchorHref>>

------------------------------------------------------------------------------
(* Selection handlers *)

\* Object.fromEntries(Object.entries(sel).filter(([k]) => k !== id))
without(sel, id) == [k \in DOMAIN sel \ {id} |-> sel[k]]

\* { ...obj, [id]: v }
with(obj, id, v) == [k \in DOMAIN obj \cup {id} |-> IF k = id THEN v ELSE obj[k]]

toggleItemSelected(id) ==
  /\ FolderView
  /\ id \in LayoutCheckboxIds
  /\ LET val == IF isSelected(selected, id)
                THEN without(selected, id) ELSE with(selected, id, TRUE)
     IN /\ selected' = val
        /\ totalSelected' = genTotalSelected(val)
  /\ UNCHANGED <<rev, protectedRoute, query, data, error, totalGenerating,
                 folderGenerating, downloads, toasts, skipToasts, anchorClicks, anchorHref>>

\* first definition (lines 145-148): the aggregate is computed from the
\* selection as it was before the toggle
toggleTotalSelected1 ==
  /\ rev = 1
  /\ FolderView
  /\ selected' = IF genTotalSelected(selected) = 2
                 THEN <<>> ELSE allTrue({c.id : c \in Range(getFiles)})
  /\ totalSelected' = genTotalSelected(selected)
  /\ UNCHANGED <<rev, protectedRoute, query, data, error, totalGenerating,
                 folderGenerating, downloads, toasts, skipToasts, anchorClicks, anchorHref>>

\* the mutant of toggleTotalSelected that clears a partial selection too
\* (genTotalSelected(selected) !== 0)
toggleTotalSelected2_ClearPartial ==
  /\ rev = 2
  /\ FolderView
  /\ LET newSelected == IF genTotalSelected(selected) # 0
                        THEN <<>> ELSE allTrue({c.id : c \in Range(getFiles)})
     IN /\ selected' = newSelected
        /\ totalSelected' = genTotalSelected(newSelected)
  /\ UNCHANGED <<rev, protectedRoute, query, data, error, totalGenerating,
                 folderGenerating, downloads, toasts, skipToasts, anchorClicks, anchorHref>>

\* second definition (lines 345-349)
toggleTotalSelected2 ==
  /\ rev = 2
  /\ FolderView
  /\ LET newSelected == IF genTotalSelected(selected) = 2
                        THEN <<>> ELSE allTrue({c.id : c \in Range(getFiles)})
     IN /\ selected' = newSelected
        /\ totalSelected' = genTotalSelected(newSelected)
  /\ UNCHANGED <<rev, protectedRoute, query, data, error, totalGenerating,
                 folderGenerating, downloads, toasts, skipToasts, anchorClicks, anchorHref>>

------------------------------------------------------------------------------
(* Downloads (components/MultiFileDownloader is outside this module: its    *)
(* promises settle, and its traversal yields records, as the actions below  *)
(* allow) *)

\* a download promise.  For a folder download: produced are the records
\* traverseFolder yields over the whole run, trav those of them it has not
\* yielded yet, out the entries the generator `files` has yielded so far
Promise(kind, id, fg, files, trav) ==
  [kind |-> kind, id |-> id, fg |-> fg, own |-> TRUE, status |-> "pending",
   files |-> files, produced |-> trav, trav |-> trav, out |-> <<>>]

Pending(t) == t \in DOMAIN downloads /\ downloads[t].status = "pending"

\* a settled promise: what it held is released
settle(t, outcome) ==
  [downloads EXCEPT ![t] = [kind |-> @.kind, id |-> @.id, fg |-> <<>>,
                            own |-> FALSE, status |-> outcome,
                            files |-> <<>>, produced |-> <<>>, trav |-> <<>>,
                            out |-> <<>>]]

\* toast.loading(...): a new toast, whose id is returned
toastLoading == Append(toasts, "loading")
newToastId == Len(toasts) + 1

\* the raw-file url of child c of the current folder
rawUrl(c) ==
  "/api/raw/?path=" \o path \o "/" \o encodeURIComponent(c.name)
    \o (IF hashedToken # Null THEN "&odpt=" \o hashedToken ELSE "")

\* getFiles().filter(c => selected[c.id]).map(c => ({ name, url }))
selectedFiles ==
  LET chosen == SelectSeq(getFiles, LAMBDA c : isSelected(selected, c.id))
  IN [i \in DOMAIN chosen |-> [name |-> Str(chosen[i].name), url |-> rawUrl(chosen[i])]]

\* the layouts offer the download button while no bulk download is running
LayoutDownloadEnabled == ~totalGenerating

\* the mutant of handleSelectedDownload that takes the bulk branch for a single
\* selected file too (files.length >= 1)
handleSelectedDownload_BulkForOne ==
  /\ FolderView
  /\ LayoutDownloadEnabled
  /\ LET files == selectedFiles
     IN IF Len(files) >= 1
        THEN /\ Len(toasts) < MaxDownloads
             /\ totalGenerating' = TRUE
             /\ toasts' = toastLoading
             /\ downloads' = Append(downloads,
                               Promise("bulk", "", <<>>, files, <<>>))
             /\ UNCHANGED <<anchorClicks, anchorHref>>
        ELSE UNCHANGED <<totalGenerating, toasts, downloads, anchorClicks,
                         anchorHref>>
  /\ UNCHANGED <<rev, protectedRoute, query, data, error, selected,
                 totalSelected, folderGenerating, skipToasts>>

handleSelectedDownload ==
  /\ FolderView
  /\ LayoutDownloadEnabled
  /\ LET files == selectedFiles
     IN IF Len(files) = 1
           THEN /\ anchorClicks < MaxClicks
                /\ anchorClicks' = anchorClicks + 1
                /\ anchorHref' = files[1].url
                /\ UNCHANGED <<totalGenerating, toasts, downloads>>
           ELSE IF Len(files) > 1
           THEN /\ Len(toasts) < MaxDownloads
                /\ totalGenerating' = TRUE
                /\ toasts' = toastLoading
                /\ downloads' = Append(downloads,
                                  Promise("bulk", "", <<>>, files, <<>>))
                /\ UNCHANGED <<anchorClicks, anchorHref>>
           ELSE UNCHANGED <<totalGenerating, toasts, downloads, anchorClicks,
                            anchorHref>>
  /\ UNCHANGED <<rev, protectedRoute, query, data, error, selected,
                 totalSelected, folderGenerating, skipToasts>>

\* setTotalGenerating(b) by a promise callback: a state update of a component
\* that is no longer mounted has no effect
setTotalGenerating(t, b) ==
  totalGenerating' = IF downloads[t].own THEN b ELSE totalGenerating

\* the mutant of the .catch callback that leaves the flag set
bulkRejected_KeepFlag(t) ==
  /\ Pending(t) /\ downloads[t].kind = "bulk"
  /\ downloads' = settle(t, "rejected")
  /\ toasts' = [toasts EXCEPT ![t] = "error"]
  /\ UNCHANGED <<rev, protectedRoute, query, data, error, selected,
                 totalSelected, totalGenerating, folderGenerating, skipToasts,
                 anchorClicks, anchorHref>>

\* downloadMultipleFiles(...).then(...)
bulkResolved(t) ==
  /\ Pending(t) /\ downloads[t].kind = "bulk"
  /\ downloads' = settle(t, "resolved")
  /\ setTotalGenerating(t, FALSE)
  /\ toasts' = [toasts EXCEPT ![t] = "success"]
  /\ UNCHANGED <<rev, protectedRoute, query, data, error, selected,
                 totalSelected, folderGenerating, skipToasts, anchorClicks, anchorHref>>

\* downloadMultipleFiles(...).catch(...)
bulkRejected(t) ==
  /\ Pending(t) /\ downloads[t].kind = "bulk"
  /\ downloads' = settle(t, "rejected")
  /\ setTotalGenerating(t, FALSE)
  /\ toasts' = [toasts EXCEPT ![t] = "error"]
  /\ UNCHANGED <<rev, protectedRoute, query, data, error, selected,
                 totalSelected, folderGenerating, skipToasts, anchorClicks, anchorHref>>

\* the permalinks of the selected files, before they are joined
selectedPermalinks(baseUrl) ==
  LET chosen == SelectSeq(getFiles, LAMBDA c : isSelected(selected, c.id))
  IN [i \in DOMAIN chosen |-> baseUrl \o rawUrl(chosen[i])]

handleSelectedPermalink(baseUrl) == join(selectedPermalinks(baseUrl), "\n")

------------------------------------------------------------------------------
(* Folder downloads *)

\* a record of traverseFolder: { meta, path, isFolder, error }
Record(p, name, isFolder) ==
  [path |-> p, name |-> name, isFolder |-> isFolder, error |-> FALSE]
ErrorRecord(p) == [path |-> p, name |-> Undefined, isFolder |-> TRUE, error |-> TRUE]

\* the record sequences traverseFolder(folderPath) can produce
Traversals(folderPath) ==
  CASE folderPath = "/d" ->
         {<<Record("/d/k", "k", FALSE), Record("/d/m", "m", FALSE)>>,
          <<ErrorRecord("/d/s"), Record("/d/m", "m", FALSE)>>}
    [] folderPath = "/a%20b" -> {<<>>, <<ErrorRecord("/a%20b")>>}
    [] OTHER -> {<<>>}

\* the folders of the listing
folders == SelectSeq(folderChildren, LAMBDA c : c.folder)

\* the path the layouts hand to handleFolderDownload for folder child c
LayoutFolderPath(c) ==
  (IF path = "/" THEN "" ELSE path) \o "/" \o encodeURIComponent(c.name)

\* the layouts offer a folder's download button while its flag is not set
LayoutFolderDownloadEnabled(id) ==
  ~(id \in DOMAIN folderGenerating /\ folderGenerating[id])

\* first definition (lines 183-191): handleFolderDownload(path)
handleFolderDownload1(c) ==
  /\ rev = 1
  /\ FolderView
  /\ c \in Range(folders)
  /\ LayoutFolderDownloadEnabled(c.id)
  /\ Len(toasts) < MaxDownloads
  /\ \E trav \in Traversals(LayoutFolderPath(c)) :
       downloads' = Append(downloads,
                      Promise("folder", c.id, folderGenerating, <<>>, trav))
  /\ toasts' = toastLoading
  /\ UNCHANGED <<rev, protectedRoute, query, data, error, selected,
                 totalSelected, totalGenerating, folderGenerating, skipToasts,
                 anchorClicks, anchorHref>>

\* first definition, the generator (lines 184-188): one traversal record is
\* taken; a record with an error is dropped, the others get the token of the
\* current route
filesNext1(t) ==
  /\ rev = 1
  /\ Pending(t) /\ downloads[t].kind = "folder"
  /\ downloads[t].trav # <<>>
  /\ LET r == Head(downloads[t].trav)
         entry == [name |-> r.name,
                   url |-> "/api/raw/?path=" \o r.path
                             \o (IF hashedToken # Null
                                 THEN "&odpt=" \o hashedToken ELSE ""),
                   path |-> r.path, isFolder |-> r.isFolder]
     IN downloads' = [downloads EXCEPT
                        ![t].trav = Tail(@),
                        ![t].out = IF r.error THEN @ ELSE Append(@, entry)]
  /\ UNCHANGED <<rev, protectedRoute, query, data, error, selected,
                 totalSelected, totalGenerating, folderGenerating, toasts,
                 skipToasts, anchorClicks, anchorHref>>

\* first definition (line 190): .finally(() => toast.dismiss(toastId))
folderSettled1(t, outcome) ==
  /\ rev = 1
  /\ Pending(t) /\ downloads[t].kind = "folder"
  /\ outcome = "resolved" => downloads[t].trav = <<>>
  /\ downloads' = settle(t, outcome)
  /\ toasts' = [toasts EXCEPT ![t] = "dismissed"]
  /\ UNCHANGED <<rev, protectedRoute, query, data, error, selected,
                 totalSelected, totalGenerating, folderGenerating, skipToasts,
                 anchorClicks, anchorHref>>

\* second definition (lines 391-416): handleFolderDownload(folderPath, id, name)
handleFolderDownload2(c) ==
  /\ rev = 2
  /\ FolderView
  /\ c \in Range(folders)
  /\ LayoutFolderDownloadEnabled(c.id)
  /\ Len(toasts) < MaxDownloads
  /\ \E trav \in Traversals(LayoutFolderPath(c)) :
       downloads' = Append(downloads,
                      Promise("folder", c.id, folderGenerating, <<>>, trav))
  /\ folderGenerating' = with(folderGenerating, c.id, TRUE)
  /\ toasts' = toastLoading
  /\ UNCHANGED <<rev, protectedRoute, query, data, error, selected,
                 totalSelected, totalGenerating, skipToasts, anchorClicks, anchorHref>>

\* the mutant of the generator that ends at a record with an error (`break`
\* in the place of `continue`)
filesNext2_StopAtError(t) ==
  /\ rev = 2
  /\ Pending(t) /\ downloads[t].kind = "folder"
  /\ downloads[t].trav # <<>>
  /\ LET r == Head(downloads[t].trav)
         hashedTokenForPath == getStoredToken(r.path)
         entry == [name |-> r.name,
                   url |-> "/api/raw/?path=" \o r.path
                             \o (IF hashedTokenForPath # Null
                                 THEN "&odpt=" \o hashedTokenForPath ELSE ""),
                   path |-> r.path, isFolder |-> r.isFolder]
     IN /\ downloads' = [downloads EXCEPT
                           ![t].trav = IF r.error THEN <<>> ELSE Tail(@),
                           ![t].out = IF r.error THEN @ ELSE Append(@, entry)]
        /\ skipToasts' = IF r.error THEN skipToasts \cup {r.path} ELSE skipToasts
  /\ UNCHANGED <<rev, protectedRoute, query, data, error, selected,
                 totalSelected, totalGenerating, folderGenerating, toasts,
                 anchorClicks, anchorHref>>

\* second definition, the generator (lines 392-410): one traversal record is
\* taken; a record with an error gets an error toast and is dropped, the
\* others get the token stored for their own path
filesNext2(t) ==
  /\ rev = 2
  /\ Pending(t) /\ downloads[t].kind = "folder"
  /\ downloads[t].trav # <<>>
  /\ LET r == Head(downloads[t].trav)
         hashedTokenForPath == getStoredToken(r.path)
         entry == [name |-> r.name,
                   url |-> "/api/raw/?path=" \o r.path
                             \o (IF hashedTokenForPath # Null
                                 THEN "&odpt=" \o hashedTokenForPath ELSE ""),
                   path |-> r.path, isFolder |-> r.isFolder]
     IN /\ downloads' = [downloads EXCEPT
                           ![t].trav = Tail(@),
                           ![t].out = IF r.error THEN @ ELSE Append(@, entry)]
        /\ skipToasts' = IF r.error THEN skipToasts \cup {r.path} ELSE skipToasts
  /\ UNCHANGED <<rev, protectedRoute, query, data, error, selected,
                 totalSelected, totalGenerating, folderGenerating, toasts,
                 anchorClicks, anchorHref>>

\* second definition (lines 414-415): the .then and the .catch callback both
\* run setFolderGenerating({ ...folderGenerating, [id]: false }) on the
\* folderGenerating of the render that started the download
folderSettled2(t, outcome) ==
  /\ rev = 2
  /\ Pending(t) /\ downloads[t].kind = "folder"
  /\ outcome = "resolved" => downloads[t].trav = <<>>
  /\ downloads' = settle(t, outcome)
  /\ folderGenerating' = IF downloads[t].own
                         THEN with(downloads[t].fg, downloads[t].id, FALSE)
                         ELSE folderGenerating
  /\ UNCHANGED <<rev, protectedRoute, query, data, error, selected,
                 totalSelected, totalGenerating, toasts, skipToasts,
                 anchorClicks, anchorHref>>

------------------------------------------------------------------------------
(* Specification *)

FetchNext ==
  \/ swrData
  \/ \E e \in Errors : swrError(e)

RouteNext ==
  \/ \E q \in Queries : navigate(q)
  \/ \E q \in Queries : remount(q)

SelectionNext ==
  \/ \E id \in LayoutCheckboxIds : toggleItemSelected(id)
  \/ toggleTotalSelected1
  \/ toggleTotalSelected2

BulkNext ==
  \/ handleSelectedDownload
  \/ \E t \in DOMAIN downloads : bulkResolved(t)
  \/ \E t \in DOMAIN downloads : bulkRejected(t)

FolderNext ==
  \/ \E c \in Range(folders) : handleFolderDownload1(c)
  \/ \E t \in DOMAIN downloads : filesNext1(t)
  \/ \E t \in DOMAIN downloads, o \in {"resolved", "rejected"} : folderSettled1(t, o)
  \/ \E c \in Range(folders) : handleFolderDownload2(c)
  \/ \E t \in DOMAIN downloads : filesNext2(t)
  \/ \E t \in DOMAIN downloads, o \in {"resolved", "rejected"} : folderSettled2(t, o)

\* the whole component; the specifications below each take the part of it
\* that reads or writes the state their properties are about (the download
\* handlers never write the selection, the fetch state or the route, and the
\* bulk and the folder downloads write different flags)
Next == FetchNext \/ RouteNext \/ SelectionNext \/ BulkNext \/ FolderNext
Spec == Init /\ [][Next]_vars

\* the fetch hook, the router and the selection handlers
SpecSelection == Init /\ [][FetchNext \/ RouteNext \/ SelectionNext]_vars

\* the selection handlers and the bulk download of the selected files
SpecBulk == Init /\ [][swrData \/ RouteNext \/ SelectionNext \/ BulkNext]_vars

\* the fetch hook and the selection handlers of a mounted component; a route
\* change mounts a new one
SpecView ==
  Init /\ [][FetchNext \/ (\E q \in Queries : remount(q)) \/ SelectionNext]_vars

\* the render dispatch over the routes and the outcomes of the fetch
SpecRender ==
  Init /\ [][FetchNext \/ (\E q \in QueryInputs : navigate(q))]_vars

\* the folder downloads
SpecFolder == Init /\ [][swrData \/ RouteNext \/ FolderNext]_vars

------------------------------------------------------------------------------
(* Properties *)

\* the ids of the children of the current listing that are files other than
\* '.password', read off `data`
ListedFileIds ==
  {c.id : c \in {ch \in UNION {Range(data[i].value) : i \in DOMAIN data} :
                   ~ch.folder /\ ch.name # DotPassword}}

SelectedListed == {id \in ListedFileIds : id \in DOMAIN selected /\ selected[id]}

Aggregate ==
  IF SelectedListed = {} THEN 0
  ELSE IF SelectedListed = ListedFileIds THEN 2 ELSE 1

\* C2: with at least one listed file, after a toggleItemSelected or
\* toggleTotalSelected call `totalSelected` is the aggregate of `selected`:
\* 0 for none, 2 for all, 1 for some but not all of the listed files.
C2_TotalSelectedMatches ==
  [][(SelectionNext /\ ListedFileIds # {}) => totalSelected' = Aggregate']_vars

\* the unsettled downloads of the given kind that the mounted component started
InProgress(kind) ==
  {t \in DOMAIN downloads :
     /\ downloads[t].kind = kind
     /\ downloads[t].status = "pending"
     /\ downloads[t].own}

\* C3: for every folder id, folderGenerating[id] is true exactly while a
\* download of that folder started by handleFolderDownload is in progress,
\* under every interleaving of the starts and completions of downloads of
\* different folders.  Stated for the second definition of the component (the
\* first one never writes folderGenerating).
C3_FolderFlagWhileInProgress ==
  rev = 2 =>
    \A id \in {"A", "B"} :
      (id \in DOMAIN folderGenerating /\ folderGenerating[id])
        <=> (\E t \in InProgress("folder") : downloads[t].id = id)

C6_RejectedShowsErrorToast ==
  rev = 2 =>
    /\ Len(downloads) = Len(toasts)
    /\ \A t \in DOMAIN downloads :
         downloads[t].status = "rejected" => toasts[t] = "error"

\* C5: whenever the fetch reports an error the view follows from the status
\* alone and is neither the folder listing nor a file preview, also when data
\* is present: 403 pushes the OAuth route and renders an empty element, 401
\* renders the authentication prompt for the current path, any other status
\* renders the not-found view with the JSON-serialized message.
C5_ErrorViewByStatus ==
  error # NoError =>
    /\ view.kind \notin {"FolderLayout", "Preview"}
    /\ error.status = 403 =>
         view = [kind |-> "div", push |-> "/onedrive-vercel-index-oauth/step-1",
                 prop |-> Null]
    /\ error.status = 401 =>
         view = [kind |-> "Auth", push |-> Null, prop |-> path]
    /\ error.status \notin {401, 403} =>
         view = [kind |-> "FourOhFour", push |-> Null,
                 prop |-> IF error.message = Undefined THEN Undefined
                          ELSE "\"" \o error.message \o "\""]

\* C5 witness: a 404 is reported while the first page of a folder is present
C5_Witness ==
  /\ error.status = 404
  /\ data # NoData
  /\ data[1].t = "folder"
  /\ view.prop = "\"Not Found\""

\* C7: handleSelectedDownload dispatches on the number of selected listed
\* files: none, nothing happens; exactly one, one anchor click on that file's
\* raw url, totalGenerating unchanged and no toast; more than one, exactly one
\* downloadMultipleFiles call over exactly the selected files with a loading
\* toast, and no anchor click.
C7_DownloadDispatch ==
  [][handleSelectedDownload =>
       LET n == Cardinality(SelectedListed)
       IN /\ n = 0 => UNCHANGED <<totalGenerating, toasts, downloads,
                                   anchorClicks, anchorHref>>
          /\ n = 1 =>
               /\ anchorClicks' = anchorClicks + 1
               /\ \E c \in Range(folderChildren) :
                    c.id \in SelectedListed /\ anchorHref' = rawUrl(c)
               /\ UNCHANGED <<totalGenerating, toasts, downloads>>
          /\ n > 1 =>
               /\ totalGenerating'
               /\ toasts' = Append(toasts, "loading")
               /\ Len(downloads') = Len(downloads) + 1
               /\ SubSeq(downloads', 1, Len(downloads)) = downloads
               /\ LET d == downloads'[Len(downloads')]
                  IN /\ d.kind = "bulk" /\ d.status = "pending"
                     /\ Len(d.files) = n
                     /\ {f.url : f \in Range(d.files)} =
                          {rawUrl(c) : c \in {ch \in Range(folderChildren) :
                                                ch.id \in SelectedListed}}
               /\ UNCHANGED <<anchorClicks, anchorHref>>]_vars

\* C7 witness: one file was downloaded by an anchor click, and a bulk download
\* of two selected files is running
C7_Witness ==
  /\ anchorClicks = 1
  /\ anchorHref # Null
  /\ \E t \in InProgress("bulk") : Len(downloads[t].files) = 2

\* the raw-file url the claim describes for a file path
ExpectedRawUrl(p) ==
  "/api/raw/?path=" \o p
    \o (IF getStoredToken(p) # Null THEN "&odpt=" \o getStoredToken(p) ELSE "")

\* C8: every raw-file url built for a selected-file download, a permalink or a
\* folder-traversal entry is '/api/raw/?path=<path>', followed by
\* '&odpt=<token>' if and only if a protected-route token is stored for that
\* file's path.
C8_RawUrlCarriesTokenOfItsPath ==
  /\ \A t \in DOMAIN downloads : \A i \in DOMAIN downloads[t].out :
       downloads[t].out[i].url = ExpectedRawUrl(downloads[t].out[i].path)
  /\ FolderView =>
       \A c \in Range(getFiles) :
         rawUrl(c) = ExpectedRawUrl(path \o "/" \o encodeURIComponent(c.name))
  /\ FolderView =>
       LET links == selectedPermalinks("https://host")
           chosen == SelectSeq(getFiles, LAMBDA c : isSelected(selected, c.id))
       IN /\ Len(links) = Len(chosen)
          /\ \A i \in DOMAIN links :
               links[i] = "https://host" \o
                 ExpectedRawUrl(path \o "/" \o encodeURIComponent(chosen[i].name))
          /\ handleSelectedPermalink("https://host") = join(links, "\n")

\* the segments of the route query: none, the one string, or the list
QuerySegments ==
  IF query.kind = "undefined" \/ query.path.t = "undefined" THEN <<>>
  ELSE IF query.path.t = "string"
       THEN (IF query.path.v = <<>> THEN <<>> ELSE <<query.path.v>>)
       ELSE query.path.v

\* C9 as stated: queryToPath gives the URL-decoded path: '/' for an absent
\* query or an absent or empty `path`, '/' followed by the segment for a
\* string, '/' followed by the segments joined with '/' for a list.
C9_PathIsSegmentsJoined ==
  path = "/" \o join([i \in DOMAIN QuerySegments |-> Str(QuerySegments[i])], "/")

\* C9 as amended: the same, with every segment percent-encoded by
\* encodeURIComponent (the path is URL-encoded, not URL-decoded).
C9_PathIsEncodedSegmentsJoined ==
  path = "/" \o join([i \in DOMAIN QuerySegments |->
                        encodeURIComponent(QuerySegments[i])], "/")

\* C9 witness: a list of two segments, the first with a space in it
C9_Witness ==
  /\ query = QArray(<<<<"a", " ", "b">>, <<"k">>>>)
  /\ path = "/a%20b/k"

\* C10: after the route path changes to a different folder, `selected` is
\* empty, `totalSelected` is 0, `totalGenerating` is false and
\* `folderGenerating` has no true entry.
C10_StateResetOnNavigation ==
  [][path' # path =>
       /\ selected' = <<>>
       /\ totalSelected' = 0
       /\ totalGenerating' = FALSE
       /\ \A id \in DOMAIN folderGenerating' : ~folderGenerating'[id]]_vars

\* the records of a traversal that carry no error, in the traversal's order,
\* as the (path, name, isFolder) each stands for
ErrorFree(records) ==
  LET kept == SelectSeq(records, LAMBDA r : ~r.error)
  IN [i \in DOMAIN kept |->
        [path |-> kept[i].path, name |-> kept[i].name,
         isFolder |-> kept[i].isFolder]]

\* the entries handed to downloadTreelikeMultipleFiles, as the same triples
HandedOn(entries) ==
  [i \in DOMAIN entries |->
     [path |-> entries[i].path, name |-> entries[i].name,
      isFolder |-> entries[i].isFolder]]

\* C11: during a folder download the entries handed to
\* downloadTreelikeMultipleFiles are exactly the traverseFolder records that
\* carry no error, one at a time and in the traversal's order: at every point
\* what was handed on, followed by the error-free records still to come, is
\* the error-free part of the whole traversal; a step of the generator hands
\* on at most one entry; a record with an error is skipped and the traversal
\* goes on, so that once the traversal is over every error-free record was
\* handed on.
C11_ErrorFreeRecordsInOrder ==
  /\ [](\A t \in DOMAIN downloads :
          (downloads[t].kind = "folder" /\ downloads[t].status = "pending") =>
            HandedOn(downloads[t].out) \o ErrorFree(downloads[t].trav)
              = ErrorFree(downloads[t].produced))
  /\ [][\A t \in DOMAIN downloads :
          (/\ downloads[t].kind = "folder"
           /\ downloads[t].status = "pending"
           /\ downloads'[t].status = "pending") =>
            /\ Len(downloads'[t].out) <= Len(downloads[t].out) + 1
            /\ SubSeq(downloads'[t].out, 1, Len(downloads[t].out))
                 = downloads[t].out
            /\ downloads'[t].produced = downloads[t].produced]_vars

\* C11 witness: a traversal whose first record carries an error is over, and
\* the error-free record after it was handed on
C11_Witness ==
  \E t \in DOMAIN downloads :
    /\ downloads[t].kind = "folder" /\ downloads[t].status = "pending"
    /\ downloads[t].produced # <<>>
    /\ downloads[t].produced[1].error
    /\ downloads[t].trav = <<>>
    /\ Len(downloads[t].out) = 1
    /\ downloads[t].out[1].path = "/d/m"

\* the views FileListing chooses between
ErrorViews == {"div", "Auth", "FourOhFour"}

\* C12: FileListing renders one view, chosen in a fixed priority: an error
\* view if the fetch reports an error; otherwise the loading view if no data
\* has arrived; otherwise the folder listing if the first response contains a
\* folder; otherwise a single-file preview only if the first response
\* contains a file and there is exactly one response; otherwise the
\* 'Cannot preview' not-found view.
C12_ViewByPriority ==
  LET isError == error # NoError
      isLoading == ~isError /\ data = NoData
      isFolder == ~isError /\ ~isLoading /\ data[1].t = "folder"
      isFile == /\ ~isError /\ ~isLoading /\ ~isFolder
                /\ data[1].t = "file" /\ Len(data) = 1
      isNotFound == ~isError /\ ~isLoading /\ ~isFolder /\ ~isFile
  IN /\ isError <=> /\ view.kind \in ErrorViews
                    /\ view.prop # "Cannot preview " \o path
     /\ isLoading <=> view.kind = "Loading"
     /\ isFolder <=> view.kind = "FolderLayout"
     /\ isFile <=> view.kind = "Preview"
     /\ isNotFound <=> /\ view.kind = "FourOhFour"
                       /\ view.prop = "Cannot preview " \o path
     /\ isFile => view.prop = data[1].value[1].id

\* C12 witness: the first response contains a file and a second response has
\* arrived, so the not-found view is rendered and not the preview
C12_Witness ==
  /\ error = NoError
  /\ Len(data) = 2
  /\ data[1].t = "file"
  /\ view = [kind |-> "FourOhFour", push |-> Null, prop |-> "Cannot preview /k"]

\* the selection with every listed file selected
FullSelection == [id \in ListedFileIds |-> TRUE]

\* what the claim says toggleTotalSelected makes of selection sel
Toggled(sel) ==
  IF \A id \in ListedFileIds : id \in DOMAIN sel /\ sel[id]
  THEN <<>> ELSE FullSelection

\* C13: toggleTotalSelected never leaves a partial selection: if every listed
\* file is selected it empties `selected`, otherwise it makes `selected`
\* exactly the ids of the listed children that are not folders and are not
\* named '.password', each mapped to true; applied twice to the full or to the
\* empty selection it gives that selection back.
C13_ToggleTotalSelected ==
  [][(toggleTotalSelected1 \/ toggleTotalSelected2) =>
       /\ selected' = Toggled(selected)
       /\ {id \in ListedFileIds : id \in DOMAIN selected' /\ selected'[id]}
            \in {{}, ListedFileIds}
       /\ selected \in {<<>>, FullSelection} =>
            /\ Toggled(selected') = selected
            /\ Toggled(Toggled(selected)) = selected]_vars

\* C13 witness: in the first definition both files of the root listing are
\* selected while the aggregate still says 'some': toggleTotalSelected has
\* completed a partial selection
C13_Witness ==
  /\ rev = 1
  /\ FolderView
  /\ Len(data) = 2
  /\ selected = [id \in {"f1", "f2"} |-> TRUE]
  /\ totalSelected = 1

====
